---------------------------- MODULE Spec2Model ----------------------------
(***************************************************************************)
(* Kmeans_clustering.py: the clustering routine run_Kmeans and the part of *)
(* the __main__ script that drives it (lines 213-264).                     *)
(*                                                                         *)
(* Arrays are records [shape, data, dtype]: data is the array's elements   *)
(* in C (row-major) order, as numpy stores them, so that reshape,          *)
(* transpose and indexing are the index arithmetic numpy performs.         *)
(*                                                                         *)
(* A matrix entry is a record [num, den2, comp, of].  With comp = 0 it is  *)
(* the real number num / sqrt(den2): a raw pixel value has den2 = 1, a     *)
(* normalised one has den2 = the sum of squares it was divided by, and     *)
(* den2 = 0 is the NaN that 0/0 gives.  With comp = j > 0 it is the j-th   *)
(* principal-component score of the pixel whose entries before PCA were    *)
(* `of` (PCA is kept symbolic: it is not the identity).                    *)
(***************************************************************************)
EXTENDS Integers, Sequences, FiniteSets, TLC

\* ---------------------------------------------------------------- bounds
\* Pixel values of the cropped images (0 is also the fill value
\* rasterio.mask gives to pixels outside the polygon).
Vals == {0, 1}
\* Stand-in for a training-sample size large enough for the whole sweep
\* (the default in the source is 10000, line 42): one more than the largest
\* candidate, the least size silhouette_score accepts with 32 labels.
NumSamplesBig == 33
\* A training-sample size that lets the sweep start and not finish.
NumSamplesMid == 5
\* The offsets the abstract KMeans may give to its cluster numbering.
MaxShift == 1
\* The random draws of pixel indices considered: one pixel over and over
\* (any pixel), and 0, s, 2s, ... modulo the number of pixels for every
\* stride s in 1 .. MaxStride.  These are all the draws when one sample is
\* taken; with many, both repeated and distinct pixels occur.
MaxStride == 2
\* Shapes (rows, columns) of the cropped study area.
Shapes == {<<1, 1>>, <<1, 2>>, <<2, 2>>}
\* Bands of the Sentinel-2 and of the Sentinel-1 image.
BandCounts == <<2, 1>>

\* ------------------------------------------------------- program constants
S2Bands == BandCounts[1]
S1Bands == BandCounts[2]
RangeStart == 2
RangeStop == 33
RangeStep == 2

Scores == {"low", "high"}
NumSamplesSet == {1, NumSamplesMid, NumSamplesBig}

\* ----------------------------------------------------------------- arrays
\* An array is [shape, data, dtype].  NoArray is a name not yet bound.
NoArray == [shape |-> <<>>, data |-> <<>>, dtype |-> "none"]

RECURSIVE Prod(_)
Prod(s) == IF s = <<>> THEN 1 ELSE Head(s) * Prod(Tail(s))

Size(a) == Len(a.data)

\* a[i, j] of a 2-D array, a[i, j, k] of a 3-D array (0-based, C order).
At2(a, i, j) == a.data[i * a.shape[2] + j + 1]
At3(a, i, j, k) == a.data[(i * a.shape[2] + j) * a.shape[3] + k + 1]

\* A 2-D array's row i as a sequence.
RowOf(a, i) == [j \in 1 .. a.shape[2] |-> At2(a, i, j - 1)]

\* np.reshape(a, shape): the same elements in the same C order.
Reshape(a, shape) == [shape |-> shape, data |-> a.data, dtype |-> a.dtype]

\* np.concatenate((a, b), axis=0) of two 3-D arrays of equal trailing shape.
Concat0(a, b) ==
    [shape |-> <<a.shape[1] + b.shape[1], a.shape[2], a.shape[3]>>,
     data |-> a.data \o b.data,
     dtype |-> a.dtype]

\* np.transpose(a, [1, 2, 0]): result[r, c, b] = a[b, r, c].
Transpose120(a) ==
    LET nb == a.shape[1]
        nr == a.shape[2]
        nc == a.shape[3]
    IN [shape |-> <<nr, nc, nb>>,
        data |-> [q \in 1 .. nb * nr * nc |->
                    At3(a, (q - 1) % nb,
                           ((q - 1) \div nb) \div nc,
                           ((q - 1) \div nb) % nc)],
        dtype |-> a.dtype]

\* X[idx, :] : the rows of X picked by idx (0-based indices).
TakeRows(X, ix) ==
    [shape |-> <<Len(ix), X.shape[2]>>,
     data |-> [q \in 1 .. Len(ix) * X.shape[2] |->
                 At2(X, ix[((q - 1) \div X.shape[2]) + 1],
                        (q - 1) % X.shape[2])],
     dtype |-> X.dtype]

\* ---------------------------------------------------------------- entries
Raw(v) == [num |-> v, den2 |-> 1, comp |-> 0, of |-> <<>>]

IsNaN(e) == e.comp = 0 /\ e.den2 = 0

HasNaN(a) == \E q \in 1 .. Size(a) : IsNaN(a.data[q])

\* Sum of the squares of column j of X (np.sum(r**2, 0) on the 1-D slice
\* that np.apply_along_axis(norm, 0, X) hands to norm).
RECURSIVE SumSq(_)
SumSq(s) == IF s = <<>> THEN 0 ELSE Head(s).num * Head(s).num + SumSq(Tail(s))

ColumnOf(a, j) == [i \in 1 .. a.shape[1] |-> At2(a, i - 1, j)]


\* norm(r) of line 58-60 on a 1-D slice r: every element over sqrt(sum r^2).
Norm(r) == [i \in 1 .. Len(r) |-> [r[i] EXCEPT !.den2 = SumSq(r)]]

\* np.apply_along_axis(norm, 0, X) (line 61): norm on every 1-D slice along
\* axis 0, that is on every column (band) of X.
ApplyNormAlongAxis0(X) ==
    [X EXCEPT !.data = [q \in 1 .. Size(X) |->
        Norm(ColumnOf(X, (q - 1) % X.shape[2]))[((q - 1) \div X.shape[2]) + 1]]]

\* PCA(n_components=X.shape[1]).fit_transform(X) (line 65): row p becomes
\* the X.shape[1] principal-component scores of row p.
PCATransform(X) ==
    [X EXCEPT !.data = [q \in 1 .. Size(X) |->
        [num |-> 0, den2 |-> 1, comp |-> ((q - 1) % X.shape[2]) + 1,
         of |-> RowOf(X, (q - 1) \div X.shape[2])]]]

\* The outcomes of fitting the PCA: NaN input is refused; more components
\* than samples is refused by scikit-learn from 0.20 on and accepted before.
PCAOutcomes(X) ==
    IF HasNaN(X) THEN {"ValueError"}
    ELSE IF X.shape[2] > X.shape[1] THEN {"ok", "ValueError"}
    ELSE {"ok"}

\* ------------------------------------------------------------------ KMeans
\* An order on the rows of one matrix: by band values, first band first.
RECURSIVE RowKey(_)
RowKey(row) ==
    IF row = <<>> THEN 0
    ELSE IF Head(row).comp > 0 THEN RowKey(Head(row).of)
    ELSE Head(row).num + Cardinality(Vals) * RowKey(Tail(row))

RowSet(a) == {RowOf(a, i) : i \in 0 .. a.shape[1] - 1}

\* KMeans(n_clusters=k, ...): the estimator, not fitted yet.
KMeans(k) == [n_clusters |-> k, train |-> {}, shift |-> 0]

\* KMeans(n_clusters=k, ...).fit(S): the fitted model.  The clusters are
\* the distinct training rows in order, folded onto k labels; shift stands
\* for the numbering the (seeded) initialisation happens to give.
KMeansFit(S, k, shift) == [n_clusters |-> k, train |-> RowSet(S), shift |-> shift]

\* What KMeans.fit raises, "ok" when nothing: NaN input, a cluster count
\* below 1, or fewer samples than clusters.
KMeansFitCheck(S, k) ==
    IF HasNaN(S) \/ k < 1 \/ S.shape[1] < k THEN "ValueError" ELSE "ok"

\* The label the fitted model gives to one row: that of the nearest
\* training row, a number in 0 .. n_clusters - 1.
PredictRow(model, row) ==
    LET key == RowKey(row)
        below == Cardinality({t \in model.train : RowKey(t) < key})
        near == IF below < Cardinality(model.train) THEN below
                ELSE Cardinality(model.train) - 1
    IN (near + model.shift) % model.n_clusters

\* kmeans.predict(A): a 1-D int32 array with one label per row of A.
Predict(model, A) ==
    [shape |-> <<A.shape[1]>>,
     data |-> [i \in 1 .. A.shape[1] |-> PredictRow(model, RowOf(A, i - 1))],
     dtype |-> "int32"]

\* silhouette_score(samples, labels) raises unless the number of distinct
\* labels is in 2 .. n_samples - 1.
SilhouetteCheck(labels) ==
    LET n_labels == Cardinality({labels.data[i] : i \in 1 .. Size(labels)})
    IN IF 2 <= n_labels /\ n_labels <= Size(labels) - 1 THEN "ok" ELSE "ValueError"

\* ------------------------------------------------------------------- int()
\* Text is a sequence of one-character strings.
DigitChars == {"0", "1", "2", "3", "4", "5", "6", "7", "8", "9"}

DigitVal(c) ==
    CASE c = "0" -> 0 [] c = "1" -> 1 [] c = "2" -> 2 [] c = "3" -> 3
      [] c = "4" -> 4 [] c = "5" -> 5 [] c = "6" -> 6 [] c = "7" -> 7
      [] c = "8" -> 8 [] c = "9" -> 9

RECURSIVE StripLeft(_)
StripLeft(t) == IF t # <<>> /\ Head(t) = " " THEN StripLeft(Tail(t)) ELSE t

RECURSIVE StripRight(_)
StripRight(t) ==
    IF t # <<>> /\ t[Len(t)] = " " THEN StripRight(SubSeq(t, 1, Len(t) - 1)) ELSE t

\* The digits of an integer literal: digits, single underscores between them.
DigitsOk(d) ==
    /\ d # <<>>
    /\ \A i \in 1 .. Len(d) :
        \/ d[i] \in DigitChars
        \/ /\ d[i] = "_"
           /\ 1 < i /\ i < Len(d)
           /\ d[i - 1] \in DigitChars /\ d[i + 1] \in DigitChars

RECURSIVE DigitsVal(_, _)
DigitsVal(d, acc) ==
    IF d = <<>> THEN acc
    ELSE IF Head(d) = "_" THEN DigitsVal(Tail(d), acc)
    ELSE DigitsVal(Tail(d), 10 * acc + DigitVal(Head(d)))

\* int(text): [ok, val]; ok = FALSE is the ValueError.
PyInt(text) ==
    LET t == StripRight(StripLeft(text))
        signed == t # <<>> /\ Head(t) \in {"+", "-"}
        d == IF signed THEN Tail(t) ELSE t
    IN IF DigitsOk(d)
       THEN [ok |-> TRUE,
             val |-> IF signed /\ Head(t) = "-" THEN 0 - DigitsVal(d, 0)
                     ELSE DigitsVal(d, 0)]
       ELSE [ok |-> FALSE, val |-> 0]

\* ------------------------------------------------------------- output name
NamePrefix ==
    <<"S", "e", "n", "t", "i", "n", "e", "l", "_", "4", "0", "m", "_",
      "k", "m", "e", "a", "n", "s", "_">>
KTif == <<"k", ".", "t", "i", "f">>
BnormTif == <<"_", "b", "n", "o", "r", "m", ".", "t", "i", "f">>
PcaTif == <<"_", "p", "c", "a", ".", "t", "i", "f">>

\* s[:-4]
DropLast4(s) == SubSeq(s, 1, Len(s) - 4)

\* Lines 101-105 with the bnorm suffix left out.
OutputNameNoBnorm(text, bn, pc) ==
    LET o1 == NamePrefix \o text \o KTif
    IN IF pc THEN DropLast4(o1) \o PcaTif ELSE o1

\* Lines 101-105: the name of the file the labels are written to.
OutputName(text, bn, pc) ==
    LET o1 == NamePrefix \o text \o KTif
        o2 == IF bn THEN DropLast4(o1) \o BnormTif ELSE o1
    IN IF pc THEN DropLast4(o2) \o PcaTif ELSE o2


\* ------------------------------------------------------------------- state
VARIABLES
    \* module-level names set by the Analysis section (lines 215-245)
    raster, rows, columns, meta,
    \* run_Kmeans: arguments
    bnorm, pca, numSamples,
    \* run_Kmeans: locals
    X, idx, samples, n_clusters, clusterer, cluster_labels, silhouette,
    bestCluster, kmeans, predCluster, output, dst,
    \* run_Kmeans: the statement to execute next, the exception raised,
    \* the value returned
    pc, err, ret,
    \* what the sweep has printed (the candidates, in order)
    stdout,
    \* bookkeeping: the statements this call has executed, and the
    \* metadata as it was when the call started
    steps, meta0,
    \* the __main__ script: position in lines 250-264, the result names
    \* bound so far, the names plotted, the exception that ended it
    mainPc, bound, plotted, mainErr

globals == <<raster, rows, columns>>
args == <<bnorm, pca, numSamples>>
locals == <<X, idx, samples, n_clusters, clusterer, cluster_labels, silhouette,
            bestCluster, kmeans, predCluster, output, dst>>
mainVars == <<mainPc, bound, plotted, mainErr>>
vars == <<globals, meta, args, locals, pc, err, ret, stdout, steps, meta0, mainVars>>

NoModel == [n_clusters |-> 0, train |-> {}, shift |-> 0]
NoMeta == [driver |-> "none", height |-> 0, width |-> 0, transform |-> "none",
           dtype |-> "none", count |-> 0]
NoFile == [name |-> <<>>, meta |-> NoMeta, band1 |-> NoArray]

\* What the user may type at the prompt.
Texts ==
    {<<"2">>, <<" ", "3">>, <<"1">>, <<"0">>, <<"9", "9">>, <<>>, <<"2", "k">>}

\* ----------------------------------------------------- the Analysis section
\* The cropped Sentinel-2 image: any pixel values, the same in every band.
S2Images(r, c) ==
    {[shape |-> <<S2Bands, r, c>>,
      data |-> [q \in 1 .. S2Bands * r * c |-> Raw(d[((q - 1) % (r * c)) + 1])],
      dtype |-> "float32"] : d \in [1 .. r * c -> Vals]}

\* The cropped Sentinel-1 image: same rows and columns, one value throughout.
S1Images(r, c) ==
    {[shape |-> <<S1Bands, r, c>>, data |-> [q \in 1 .. S1Bands * r * c |-> Raw(v)],
      dtype |-> "float32"] : v \in Vals}

\* Lines 225-233: the metadata of the Sentinel-2 source, updated to the crop.
CroppedMeta(img) ==
    [driver |-> "GTiff", height |-> img.shape[2], width |-> img.shape[3],
     transform |-> "cropped", dtype |-> img.dtype, count |-> S2Bands]

\* Lines 240 and 245: stack on the band axis, then bands last.
StackedRaster(img, img2) == Transpose120(Concat0(img, img2))

ResetCall ==
    /\ X = NoArray /\ idx = <<>> /\ samples = NoArray /\ n_clusters = 0
    /\ clusterer = NoModel /\ cluster_labels = NoArray /\ silhouette = "none"
    /\ bestCluster = <<>> /\ kmeans = NoModel /\ predCluster = NoArray
    /\ output = <<>> /\ dst = NoFile
    /\ err = "none" /\ ret = NoArray /\ stdout = <<>> /\ steps = <<>>

Analysis ==
    /\ \E sh \in Shapes :
         \E img \in S2Images(sh[1], sh[2]) :
           \E img2 \in S1Images(sh[1], sh[2]) :
             /\ raster = StackedRaster(img, img2)
             /\ rows = img.shape[2]
             /\ columns = img.shape[3]
             /\ meta = CroppedMeta(img)
    /\ bnorm = FALSE /\ pca = FALSE /\ numSamples = 0
    /\ ResetCall
    /\ pc = "idle"
    /\ meta0 = meta
    /\ bound = [v \in {"kmeans1", "kmeans2", "kmeans3", "kmeans4"} |-> NoArray]
    /\ plotted = <<>>
    /\ mainErr = "none"

\* run_Kmeans called on the state the Analysis section leaves.
Init == Analysis /\ mainPc = 0

\* The script itself, about to execute line 251.
InitMain == Analysis /\ mainPc = 1

\* ---------------------------------------------------------------- run_Kmeans
\* The statements of run_Kmeans (lines 54-114) in program order.
\* (First, two orders the program does not have.)  PCA before normalisation.
StatementsPcaFirst ==
    <<"reshape", "pca", "bnorm", "select", "sweep", "prompt", "fit", "score",
      "predict", "reshapePred", "name", "meta", "write", "return", "returned">>

\* The metadata update moved up, before the final fit.
StatementsMetaBeforeFit ==
    <<"reshape", "bnorm", "pca", "select", "sweep", "prompt", "meta", "fit",
      "score", "predict", "reshapePred", "name", "write", "return", "returned">>

Statements ==
    <<"reshape", "bnorm", "pca", "select", "sweep", "prompt", "fit", "score",
      "predict", "reshapePred", "name", "meta", "write", "return", "returned">>

\* The statement after statement p.
After(p) == Statements[(CHOOSE i \in 1 .. Len(Statements) : Statements[i] = p) + 1]

\* A call binds the arguments and starts a fresh frame.
StartCall(bn, pc_, ns) ==
    /\ bnorm' = bn /\ pca' = pc_ /\ numSamples' = ns
    /\ X' = NoArray /\ idx' = <<>> /\ samples' = NoArray /\ n_clusters' = 0
    /\ clusterer' = NoModel /\ cluster_labels' = NoArray /\ silhouette' = "none"
    /\ bestCluster' = <<>> /\ kmeans' = NoModel /\ predCluster' = NoArray
    /\ output' = <<>> /\ dst' = NoFile
    /\ err' = "none" /\ ret' = NoArray /\ stdout' = <<>> /\ steps' = <<>>
    /\ meta0' = meta
    /\ pc' = Head(Statements)
    /\ UNCHANGED <<globals, meta>>

\* An exception leaves the frame as it is.
Raise(what) == pc' = "error" /\ err' = what

\* Line 54.
ReshapeRaster ==
    /\ pc = "reshape"
    /\ X' = Reshape(raster, <<rows * columns, raster.shape[3]>>)
    /\ steps' = Append(steps, "reshape")
    /\ pc' = After("reshape")
    /\ UNCHANGED <<globals, meta, args, idx, samples, n_clusters, clusterer,
                   cluster_labels, silhouette, bestCluster, kmeans, predCluster,
                   output, dst, err, ret, stdout, meta0, mainVars>>

\* Lines 57-61.
Normalise ==
    /\ pc = "bnorm"
    /\ IF bnorm
       THEN X' = ApplyNormAlongAxis0(X) /\ steps' = Append(steps, "bnorm")
       ELSE UNCHANGED <<X, steps>>
    /\ pc' = After("bnorm")
    /\ UNCHANGED <<globals, meta, args, idx, samples, n_clusters, clusterer,
                   cluster_labels, silhouette, bestCluster, kmeans, predCluster,
                   output, dst, err, ret, stdout, meta0, mainVars>>

\* Lines 64-65.
ApplyPCA ==
    /\ pc = "pca"
    /\ IF pca
       THEN \E outcome \in PCAOutcomes(X) :
              /\ steps' = Append(steps, "pca")
              /\ IF outcome = "ok"
                 THEN X' = PCATransform(X) /\ pc' = After("pca") /\ err' = err
                 ELSE X' = X /\ Raise("PCA")
       ELSE pc' = After("pca") /\ UNCHANGED <<X, steps, err>>
    /\ UNCHANGED <<globals, meta, args, idx, samples, n_clusters, clusterer,
                   cluster_labels, silhouette, bestCluster, kmeans, predCluster,
                   output, dst, ret, stdout, meta0, mainVars>>

\* One draw too few.
RandIntShort(n, size) ==
    {[i \in 1 .. size - 1 |-> (d[1] + d[2] * (i - 1)) % n] :
        d \in {e \in (0 .. n - 1) \X (0 .. MaxStride) : e[1] = 0 \/ e[2] = 0}}

\* np.random.randint(n, size=size): the draws considered.
RandInt(n, size) ==
    {[i \in 1 .. size |-> (d[1] + d[2] * (i - 1)) % n] :
        d \in {e \in (0 .. n - 1) \X (0 .. MaxStride) : e[1] = 0 \/ e[2] = 0}}

\* Lines 68-69.
SelectPixels ==
    /\ pc = "select"
    /\ \E draw \in RandInt(X.shape[1], numSamples) :
         /\ idx' = draw
         /\ samples' = TakeRows(X, draw)
    /\ steps' = Append(steps, "select")
    /\ pc' = After("select")
    /\ UNCHANGED <<globals, meta, args, X, n_clusters, clusterer,
                   cluster_labels, silhouette, bestCluster, kmeans, predCluster,
                   output, dst, err, ret, stdout, meta0, mainVars>>


\* range(2, 33, 2) of line 75, as the sequence it iterates over.
RECURSIVE PyRange(_, _, _)
PyRange(start, stop, step) ==
    IF start >= stop THEN <<>> ELSE <<start>> \o PyRange(start + step, stop, step)

RangeNClustersOdd == PyRange(RangeStart + 1, RangeStop, RangeStep)

range_n_clusters == PyRange(RangeStart, RangeStop, RangeStep)

\* Lines 77-82: one pass of the loop body, for the candidate after the ones
\* already printed.
SweepStep ==
    /\ pc = "sweep"
    /\ LET n == range_n_clusters[Len(stdout) + 1]
           last == Len(stdout) + 1 = Len(range_n_clusters)
       IN \E score \in Scores :
            LET model == KMeansFit(samples, n, 0)
                labels == Predict(model, samples)
            IN /\ n_clusters' = n
               /\ steps' = Append(steps, "sweep")
               /\ IF KMeansFitCheck(samples, n) # "ok"
                  THEN /\ clusterer' = KMeans(n)
                       /\ Raise("KMeans")
                       /\ UNCHANGED <<cluster_labels, silhouette, stdout>>
                  ELSE /\ clusterer' = model
                       /\ cluster_labels' = labels
                       /\ IF SilhouetteCheck(labels) # "ok"
                          THEN /\ Raise("silhouette")
                               /\ UNCHANGED <<silhouette, stdout>>
                          ELSE /\ silhouette' = score
                               /\ stdout' = Append(stdout, n)
                               /\ pc' = IF last THEN After("sweep") ELSE "sweep"
                               /\ err' = err
    /\ UNCHANGED <<globals, meta, args, X, idx, samples, bestCluster, kmeans,
                   predCluster, output, dst, ret, meta0, mainVars>>

\* Line 89: the user types a line.
Prompt ==
    /\ pc = "prompt"
    /\ \E text \in Texts : bestCluster' = text
    /\ steps' = Append(steps, "prompt")
    /\ pc' = After("prompt")
    /\ UNCHANGED <<globals, meta, args, X, idx, samples, n_clusters, clusterer,
                   cluster_labels, silhouette, kmeans, predCluster, output, dst,
                   err, ret, stdout, meta0, mainVars>>

\* The n_clusters argument of line 92 taken from the loop variable instead.
FinalNClustersFromSweep(text) == [ok |-> PyInt(text).ok, val |-> n_clusters]

\* The n_clusters argument of line 92: int(bestCluster).
FinalNClusters(text) == PyInt(text)

\* Lines 92-93.
FinalFit ==
    /\ pc = "fit"
    /\ steps' = Append(steps, "fit")
    /\ LET k == FinalNClusters(bestCluster)
       IN IF ~k.ok
          THEN Raise("int") /\ UNCHANGED <<kmeans, cluster_labels>>
          ELSE IF KMeansFitCheck(samples, k.val) # "ok"
          THEN kmeans' = KMeans(k.val) /\ Raise("KMeans") /\ UNCHANGED cluster_labels
          ELSE \E shift \in 0 .. MaxShift :
                 /\ kmeans' = KMeansFit(samples, k.val, shift)
                 /\ cluster_labels' = Predict(KMeansFit(samples, k.val, shift), samples)
                 /\ pc' = After("fit")
                 /\ err' = err
    /\ UNCHANGED <<globals, meta, args, X, idx, samples, n_clusters, clusterer,
                   silhouette, bestCluster, predCluster, output, dst, ret, stdout,
                   meta0, mainVars>>

\* Line 94.
FinalScore ==
    /\ pc = "score"
    /\ steps' = Append(steps, "score")
    /\ IF SilhouetteCheck(cluster_labels) # "ok"
       THEN Raise("silhouette") /\ UNCHANGED silhouette
       ELSE /\ \E score \in Scores : silhouette' = score
            /\ pc' = After("score")
            /\ err' = err
    /\ UNCHANGED <<globals, meta, args, X, idx, samples, n_clusters, clusterer,
                   cluster_labels, bestCluster, kmeans, predCluster, output, dst,
                   ret, stdout, meta0, mainVars>>

\* kmeans.predict(samples) in place of line 95.
PredictInputSamples == samples

\* The argument of kmeans.predict at line 95: all the pixels.
PredictInput == X

\* Line 95.
PredictAll ==
    /\ pc = "predict"
    /\ predCluster' = Predict(kmeans, PredictInput)
    /\ steps' = Append(steps, "predict")
    /\ pc' = After("predict")
    /\ UNCHANGED <<globals, meta, args, X, idx, samples, n_clusters, clusterer,
                   cluster_labels, silhouette, bestCluster, kmeans, output, dst,
                   err, ret, stdout, meta0, mainVars>>

\* Line 98.
ReshapePred ==
    /\ pc = "reshapePred"
    /\ predCluster' = Reshape(predCluster, <<rows, columns>>)
    /\ steps' = Append(steps, "reshapePred")
    /\ pc' = After("reshapePred")
    /\ UNCHANGED <<globals, meta, args, X, idx, samples, n_clusters, clusterer,
                   cluster_labels, silhouette, bestCluster, kmeans, output, dst,
                   err, ret, stdout, meta0, mainVars>>

\* Lines 101-105.
NameOutput ==
    /\ pc = "name"
    /\ output' = OutputName(bestCluster, bnorm, pca)
    /\ steps' = Append(steps, "name")
    /\ pc' = After("name")
    /\ UNCHANGED <<globals, meta, args, X, idx, samples, n_clusters, clusterer,
                   cluster_labels, silhouette, bestCluster, kmeans, predCluster,
                   dst, err, ret, stdout, meta0, mainVars>>

\* meta.update(...) with the count left as it was.
MetaUpdateDtypeOnly(m, a) == [m EXCEPT !.dtype = a.dtype]

\* Line 108: meta.update(dtype=str(predCluster.dtype), count=1).
MetaUpdate(m, a) == [m EXCEPT !.dtype = a.dtype, !.count = 1]

UpdateMeta ==
    /\ pc = "meta"
    /\ meta' = MetaUpdate(meta, predCluster)
    /\ steps' = Append(steps, "meta")
    /\ pc' = After("meta")
    /\ UNCHANGED <<globals, args, locals, err, ret, stdout, meta0, mainVars>>

\* Lines 111-112: open the output with the metadata, write band 1.
WriteRaster ==
    /\ pc = "write"
    /\ dst' = [name |-> output, meta |-> meta, band1 |-> predCluster]
    /\ steps' = Append(steps, "write")
    /\ pc' = After("write")
    /\ UNCHANGED <<globals, meta, args, X, idx, samples, n_clusters, clusterer,
                   cluster_labels, silhouette, bestCluster, kmeans, predCluster,
                   output, err, ret, stdout, meta0, mainVars>>

\* Line 114.
Return ==
    /\ pc = "return"
    /\ ret' = predCluster
    /\ pc' = After("return")
    /\ UNCHANGED <<globals, meta, args, locals, err, stdout, steps, meta0, mainVars>>

Run ==
    \/ ReshapeRaster \/ Normalise \/ ApplyPCA \/ SelectPixels \/ SweepStep
    \/ Prompt \/ FinalFit \/ FinalScore \/ PredictAll \/ ReshapePred
    \/ NameOutput \/ UpdateMeta \/ WriteRaster \/ Return

\* run_Kmeans(raster, numSamples=ns, bnorm=bn, pca=pc_), once the previous
\* call, if any, has returned or raised.
Call ==
    /\ mainPc = 0
    /\ pc \in {"idle", "returned", "error"}
    /\ \E bn \in BOOLEAN, pc_ \in BOOLEAN, ns \in NumSamplesSet : StartCall(bn, pc_, ns)
    /\ UNCHANGED mainVars

Next == Call \/ Run

Spec == Init /\ [][Next]_vars

\* ------------------------------------------------------------ __main__ script
\* Lines 250-264: four calls, each followed by a plot.
MainScript ==
    << [op |-> "call", var |-> "kmeans1", bnorm |-> FALSE, pca |-> FALSE],
       [op |-> "plot", var |-> "kmeans2", bnorm |-> FALSE, pca |-> FALSE],
       [op |-> "call", var |-> "kmeans2", bnorm |-> FALSE, pca |-> TRUE],
       [op |-> "plot", var |-> "kmeans2", bnorm |-> FALSE, pca |-> FALSE],
       [op |-> "call", var |-> "kmeans3", bnorm |-> TRUE, pca |-> FALSE],
       [op |-> "plot", var |-> "kmeans3", bnorm |-> FALSE, pca |-> FALSE],
       [op |-> "call", var |-> "kmeans4", bnorm |-> TRUE, pca |-> TRUE],
       [op |-> "plot", var |-> "kmeans4", bnorm |-> FALSE, pca |-> FALSE] >>

MainActive == mainPc \in 1 .. Len(MainScript) /\ mainErr = "none"

\* The right-hand side of an assignment statement: run_Kmeans(raster, ...)
\* with the default numSamples.
MainCall ==
    /\ MainActive
    /\ MainScript[mainPc].op = "call"
    /\ pc = "idle"
    /\ StartCall(MainScript[mainPc].bnorm, MainScript[mainPc].pca, NumSamplesBig)
    /\ UNCHANGED mainVars

\* The assignment itself, when the call has returned.
MainAssign ==
    /\ MainActive
    /\ MainScript[mainPc].op = "call"
    /\ pc = "returned"
    /\ bound' = [bound EXCEPT ![MainScript[mainPc].var] = ret]
    /\ mainPc' = mainPc + 1
    /\ pc' = "idle"
    /\ UNCHANGED <<globals, meta, args, locals, err, ret, stdout, steps, meta0,
                   plotted, mainErr>>

\* An exception raised in run_Kmeans ends the script.
MainAbort ==
    /\ MainActive
    /\ pc = "error"
    /\ mainErr' = "ValueError"
    /\ UNCHANGED <<globals, meta, args, locals, pc, err, ret, stdout, steps, meta0,
                   mainPc, bound, plotted>>

\* plot_image(name): a NameError when the name is not bound yet.
MainPlot ==
    /\ MainActive
    /\ MainScript[mainPc].op = "plot"
    /\ pc = "idle"
    /\ IF bound[MainScript[mainPc].var] = NoArray
       THEN mainErr' = "NameError" /\ UNCHANGED <<mainPc, plotted>>
       ELSE /\ plotted' = Append(plotted, MainScript[mainPc].var)
            /\ mainPc' = mainPc + 1
            /\ mainErr' = mainErr
    /\ UNCHANGED <<globals, meta, args, locals, pc, err, ret, stdout, steps, meta0,
                   bound>>

NextMain == MainCall \/ MainAssign \/ MainAbort \/ MainPlot \/ Run

SpecMain == InitMain /\ [][NextMain]_vars


\* ===================================================================== claims
IsPrefix(a, b) == Len(a) <= Len(b) /\ a = SubSeq(b, 1, Len(a))

Has(seq, x) == \E i \in 1 .. Len(seq) : seq[i] = x

Count(seq, x) == Cardinality({i \in 1 .. Len(seq) : seq[i] = x})

\* The candidates of the sweep, written out.
Candidates == <<2, 4, 6, 8, 10, 12, 14, 16, 18, 20, 22, 24, 26, 28, 30, 32>>

\* The decimal numeral of k, and the texts a user entering k may type.
RECURSIVE Dec(_)
Dec(k) ==
    LET digit == <<"0", "1", "2", "3", "4", "5", "6", "7", "8", "9">>[(k % 10) + 1]
    IN IF k < 10 THEN <<digit>> ELSE Dec(k \div 10) \o <<digit>>

Entered(k) == bestCluster \in {Dec(k), <<" ">> \o Dec(k)}

EnteredInteger == \E k \in 0 .. 99 : Entered(k)

\* The band values of pixel (r, c) of the raster, and those a row of the
\* sample matrix was computed from.
PixelOf(r, c) == [b \in 1 .. raster.shape[3] |-> At3(raster, r, c, b - 1).num]

SourceOf(row) ==
    IF row[1].comp > 0 THEN [b \in 1 .. Len(row[1].of) |-> row[1].of[b].num]
    ELSE [b \in 1 .. Len(row) |-> row[b].num]

\* ------------------------------------------------------------------------ C1
C1_Events ==
    {"reshape", "bnorm", "pca", "select", "sweep", "prompt", "fit", "predict",
     "reshapePred", "write"}

C1_IsEvent(x) == x \in C1_Events

C1_Order ==
    <<"reshape">> \o (IF bnorm THEN <<"bnorm">> ELSE <<>>)
    \o (IF pca THEN <<"pca">> ELSE <<>>) \o <<"select">>
    \o [i \in 1 .. 16 |-> "sweep"]
    \o <<"prompt", "fit", "predict", "reshapePred", "write">>

\* C1: every call of run_Kmeans executes its steps in the fixed order
\* reshape, normalisation (if bnorm), PCA (if pca), subsampling, the sweep
\* of the 16 candidates, one prompt, final fit, prediction, reshape, write:
\* what a call has executed so far is always an initial part of that list
\* and the whole list once it has returned; the prompt comes only after the
\* last candidate has been scored, the write only after the prediction.
C1_FixedOrder ==
    /\ IsPrefix(SelectSeq(steps, C1_IsEvent), C1_Order)
    /\ pc = "returned" => SelectSeq(steps, C1_IsEvent) = C1_Order
    /\ Has(steps, "prompt") => stdout = Candidates
    /\ dst # NoFile => Has(steps, "predict") /\ dst.band1 = predCluster

C1_Witness ==
    pc = "returned" /\ bnorm /\ pca /\ dst # NoFile /\ Count(steps, "prompt") = 1

\* ------------------------------------------------------------------------ C2
\* C2: whenever the final model has been fitted, the text entered is an
\* integer k and the model has exactly k clusters, whatever the sweep
\* printed and scored and whether or not k is one of its candidates.
C2_FitsEnteredCount ==
    /\ kmeans # NoModel =>
          \E k \in 0 .. 99 : Entered(k) /\ kmeans.n_clusters = k
    /\ \A k \in 2 .. 99 :
          (Has(steps, "fit") /\ Entered(k) /\ k <= numSamples) =>
              kmeans.n_clusters = k /\ kmeans.train = RowSet(samples)

C2_Witness ==
    /\ pc = "returned" /\ Entered(3) /\ kmeans.n_clusters = 3
    /\ ~Has(Candidates, 3) /\ stdout = Candidates /\ silhouette = "low"

\* ------------------------------------------------------------------------ C3
\* C3: once the prediction has been reshaped, the label raster has shape
\* (rows, columns); its entry at (r, c) is the label the fitted model gives
\* to row r*columns + c of the sample matrix, which is the preprocessed band
\* vector of raster[r, c, :], and lies in 0 .. k-1 for the entered k; that
\* raster is what is written and what is returned.
C3_LabelsEveryPixel ==
    Has(steps, "reshapePred") =>
        /\ predCluster.shape = <<rows, columns>>
        /\ Size(predCluster) = rows * columns
        /\ \A r \in 0 .. rows - 1 : \A c \in 0 .. columns - 1 :
             /\ SourceOf(RowOf(X, r * columns + c)) = PixelOf(r, c)
             /\ At2(predCluster, r, c) = PredictRow(kmeans, RowOf(X, r * columns + c))
             /\ \E k \in 2 .. 99 : Entered(k) /\ At2(predCluster, r, c) \in 0 .. k - 1
        /\ dst # NoFile => dst.band1 = predCluster
        /\ pc = "returned" => ret = predCluster

C3_Witness ==
    /\ pc = "returned" /\ rows = 2 /\ columns = 2
    /\ numSamples > rows * columns
    /\ \E p, q \in 1 .. Size(ret) : ret.data[p] # ret.data[q]
    /\ \E p \in 0 .. rows * columns - 1 : \A i \in 1 .. Len(idx) : idx[i] # p

\* ------------------------------------------------------------------------ C4
\* C4: run as the main program, the script never reaches a plot whose
\* argument has not been assigned: it performs the runs raw, PCA, bnorm,
\* bnorm+PCA in that order and plots each result after computing it.
C4_PlotsComputedResults ==
    /\ mainErr # "NameError"
    /\ (MainActive /\ MainScript[mainPc].op = "plot" /\ pc = "idle")
          => bound[MainScript[mainPc].var] # NoArray

\* ------------------------------------------------------------------------ C5
C5_SweepStarted == Has(steps, "sweep")

\* C5 as stated: the sweep scores 2, 4, ..., 32 in increasing order, each
\* once, and once started always gets past the 16th candidate, whatever
\* the raster, numSamples, bnorm and pca; it selects no cluster count.
C5_SweepAlwaysCompletes ==
    /\ IsPrefix(stdout, Candidates)
    /\ (C5_SweepStarted /\ pc # "sweep") => stdout = Candidates
    /\ pc = "sweep" => kmeans = NoModel /\ bestCluster = <<>>

C5_SweepAborted == pc = "error" /\ C5_SweepStarted /\ ~Has(steps, "prompt")

\* C5 as amended: the sweep scores candidates of 2, 4, ..., 32 in
\* increasing order, each at most once; it gets past the 16th candidate
\* unless a fit or a score raises, in which case the call ends at that
\* candidate, unprompted, with the earlier candidates scored; a fit on
\* NaN-free samples raises only when numSamples is below the candidate,
\* and a call with numSamples < 32 never gets past the sweep; the sweep
\* selects no cluster count.
C5_SweepUnlessRaise ==
    /\ IsPrefix(stdout, Candidates)
    /\ (C5_SweepStarted /\ pc # "sweep" /\ ~C5_SweepAborted) => stdout = Candidates
    /\ C5_SweepAborted =>
         /\ err \in {"KMeans", "silhouette"}
         /\ Len(stdout) < Len(Candidates)
         /\ n_clusters = Candidates[Len(stdout) + 1]
         /\ bestCluster = <<>>
         /\ (err = "KMeans" /\ ~HasNaN(samples)) => numSamples < n_clusters
    /\ (C5_SweepStarted /\ pc # "sweep" /\ numSamples < 32) => C5_SweepAborted
    /\ C5_SweepStarted => Count(steps, "sweep") \in {Len(stdout), Len(stdout) + 1}
    /\ pc = "sweep" => kmeans = NoModel /\ bestCluster = <<>>

C5_Witness == pc = "prompt" /\ stdout = Candidates /\ Count(steps, "sweep") = 16

\* ------------------------------------------------------------------------ C6
C6_SameReal(a, b) ==
    IF a.den2 = 0 \/ b.den2 = 0 THEN a.den2 = b.den2
    ELSE a.num = b.num /\ (a.num = 0 \/ a.den2 = b.den2)

C6_PerPixel(M) ==
    [M EXCEPT !.data = [q \in 1 .. Size(M) |->
        [M.data[q] EXCEPT !.den2 = SumSq(RowOf(M, (q - 1) \div M.shape[2]))]]]

\* C6: with bnorm=True the normalised matrix holds, for every pixel, its
\* band values divided by the Euclidean norm of that pixel's own bands.
C6_NormalisedPerPixel ==
    (bnorm /\ Has(steps, "bnorm") /\ ~Has(steps, "pca")) =>
        \A q \in 1 .. Size(X) :
            C6_SameReal(X.data[q],
                        C6_PerPixel(Reshape(raster, <<rows * columns, raster.shape[3]>>)).data[q])

\* ------------------------------------------------------------------------ C7
\* C7: once the pixels are selected, the training sample has exactly
\* numSamples rows, and row i is the row of the preprocessed matrix at
\* index idx[i], an index in 0 .. rows*columns-1; so for every numSamples
\* >= 1, also more than there are pixels (pixels then repeat).
C7_SubsampleRows ==
    Has(steps, "select") =>
        /\ numSamples >= 1
        /\ Len(idx) = numSamples
        /\ samples.shape = <<numSamples, X.shape[2]>>
        /\ Size(samples) = numSamples * X.shape[2]
        /\ \A i \in 1 .. numSamples :
             /\ idx[i] \in 0 .. rows * columns - 1
             /\ RowOf(samples, i - 1) = RowOf(X, idx[i])

C7_Witness ==
    /\ Has(steps, "select") /\ numSamples > rows * columns
    /\ \E i, j \in 1 .. Len(idx) : i # j /\ idx[i] = idx[j]
    /\ \E i, j \in 1 .. Len(idx) : idx[i] # idx[j]

\* ------------------------------------------------------------------------ C8
C8_ProbeTexts ==
    Texts \cup {<<"2", "k", "_", "b", "n", "o", "r", "m">>,
                <<"2", "k", "_", "p", "c", "a">>, <<"2", "_", "b", "n", "o", "r", "m">>}

\* C8: the output name is "Sentinel_40m_kmeans_" + the text entered + "k"
\* + "_bnorm" if bnorm + "_pca" if pca + ".tif"; no other (text, bnorm,
\* pca) gives the same name; the text in it denotes the number of clusters
\* fitted; it is the name the file is written under.
C8_OutputNameInjective ==
    output # <<>> =>
        /\ output = NamePrefix \o bestCluster \o <<"k">>
                    \o (IF bnorm THEN <<"_", "b", "n", "o", "r", "m">> ELSE <<>>)
                    \o (IF pca THEN <<"_", "p", "c", "a">> ELSE <<>>)
                    \o <<".", "t", "i", "f">>
        /\ \A t \in C8_ProbeTexts : \A b \in BOOLEAN : \A p \in BOOLEAN :
             OutputName(t, b, p) = output => <<t, b, p>> = <<bestCluster, bnorm, pca>>
        /\ \E k \in 2 .. 99 : Entered(k) /\ kmeans.n_clusters = k
        /\ dst # NoFile => dst.name = output

C8_Witness ==
    /\ pc = "returned" /\ bnorm /\ pca
    /\ dst.name = NamePrefix \o <<"2", "k", "_", "b", "n", "o", "r", "m", "_", "p",
                                  "c", "a", ".", "t", "i", "f">>

\* ------------------------------------------------------------------------ C9
\* C9: the shared metadata always keeps the driver, height, width and
\* transform of the cropped Sentinel-2 image; after a successful call it
\* has count = 1 and the dtype of the label array, and stays so through
\* later calls; the array written is one band of shape (height, width) of
\* the metadata it is written with.
C9_MetaAfterRuns ==
    /\ meta.driver = "GTiff" /\ meta.transform = "cropped"
    /\ meta.height = rows /\ meta.width = columns
    /\ pc = "returned" => meta.count = 1 /\ meta.dtype = ret.dtype /\ meta.dtype = "int32"
    /\ meta0.dtype = "int32" => meta0.count = 1 /\ meta = meta0
    /\ dst # NoFile =>
         /\ dst.meta = meta /\ dst.meta.count = 1
         /\ dst.band1.shape = <<dst.meta.height, dst.meta.width>>
         /\ dst.band1.dtype = dst.meta.dtype

C9_Witness ==
    /\ pc = "returned" /\ meta0.dtype = "int32" /\ rows # columns
    /\ S2Bands # 1

\* ----------------------------------------------------------------------- C10
\* C10: if the text entered is not an integer, the call fails at the final
\* fit with the error of int(), after the whole sweep and a single prompt,
\* with no file written and the shared metadata as it was at the call.
C10_BadInputNoEffect ==
    /\ (Has(steps, "fit") /\ ~EnteredInteger) => pc = "error" /\ err = "int"
    /\ err = "int" =>
         /\ ~EnteredInteger
         /\ stdout = Candidates
         /\ Count(steps, "prompt") = 1
         /\ steps[Len(steps)] = "fit"
         /\ meta = meta0 /\ dst = NoFile /\ ret = NoArray /\ output = <<>>

C10_Witness ==
    /\ pc = "error" /\ err = "int" /\ bestCluster = <<"2", "k">>
    /\ meta0.dtype = "int32"

=============================================================================
